---------------------------- MODULE Spec2Model ----------------------------
(***************************************************************************)
(* DirO, the directory organizer (src/main.py): the scanner, the grouping  *)
(* strategies, the plan executor and the duplicate resolver, over a small  *)
(* file system.  Strings (paths, names, labels, digests) are sequences of  *)
(* one-character strings, so that basename, splitext, rsplit, join and     *)
(* lower() are computed character by character as Python computes them.   *)
(***************************************************************************)
EXTENDS Integers, Sequences, FiniteSets, TLC

VARIABLES
    fs,      \* the file system: [files: path -> file identity, dirs: set of paths]
    data,    \* file identity -> content (bytes); never changes
    pc,      \* "start", "scanned", "suggested", "removed", "done"
    scan,    \* the last get_file_info call and what it returned
    plan,    \* the last grouping strategy call and the suggestion it returned
    pre,     \* the file system at the time the last executor call started
    call,    \* the last executor call (organize_files / move_duplicates)
    out      \* what that call did: the moves it attempted, whether it raised

vars == <<fs, data, pc, scan, plan, pre, call, out>>

(***************************************************************************)
(* Bounds of the model.                                                    *)
(***************************************************************************)
MaxFiles == 3
MaxSimFiles == 4
MaxDupFiles == 3

(***************************************************************************)
(* Program constants (src/main.py, "Folder Name Variables").               *)
(***************************************************************************)
TYPE_PREFIX == <<"T", "y", "p", "e", " ">>
NO_EXTENSION_FOLDER == <<"N", "o", " ", "E", "x", "t", "e", "n", "s", "i", "o", "n">>
SIMILAR_PREFIX == <<"S", "i", "m", "i", "l", "a", "r">>
ALL_FILES_FOLDER == <<"O", "n", "e", " ", "F", "o", "l", "d", "e", "r">>
DUPLICATES_FOLDER == <<"D", "u", "p", "l", "i", "c", "a", "t", "e", "s">>
DUPLICATE_PREFIX == <<"D", "u", "p", "e">>
EMPTY_FOLDERS_FOLDER == <<"E", "m", "p", "t", "y", " ", "F", "o", "l", "d", "e", "r", "s">>
\* the sentinel get_file_info stores for a file without extension
NO_EXTENSION == <<".", "n", "o", "_", "e", "x", "t", "e", "n", "s", "i", "o", "n">>
\* the score a comparison must reach to join the seed's group
SIMILARITY_THRESHOLD == 60

\* None, and the empty string: both are false where the code tests a path
NoPath == <<>>

(***************************************************************************)
(* Python's string and path primitives, as the code uses them.             *)
(***************************************************************************)
MaxOf(S) == CHOOSE x \in S : \A y \in S : y <= x
MinOf(S) == CHOOSE x \in S : \A y \in S : x <= y

\* index of the last occurrence of character c in s, 0 when there is none
LastIndexOf(s, c) ==
    LET I == {i \in 1..Len(s) : s[i] = c}
    IN  IF I = {} THEN 0 ELSE MaxOf(I)

\* os.path.basename
basename(p) == SubSeq(p, LastIndexOf(p, "/") + 1, Len(p))

\* s.rsplit(c, 1)[0]
rsplit1(s, c) ==
    IF LastIndexOf(s, c) = 0 THEN s ELSE SubSeq(s, 1, LastIndexOf(s, c) - 1)

\* os.path.dirname: the directory an entry of the file system lives in
dirname(p) == SubSeq(p, 1, LastIndexOf(p, "/") - 1)

\* os.path.join of two components (posixpath.join)
join(a, b) ==
    IF b # <<>> /\ Head(b) = "/" THEN b
    ELSE IF a = <<>> \/ a[Len(a)] = "/" THEN a \o b
    ELSE a \o <<"/">> \o b

\* os.path.splitext: <<root, ext>>; leading dots of the name are no extension
splitext(p) ==
    LET sepIndex == LastIndexOf(p, "/")
        dotIndex == LastIndexOf(p, ".")
    IN  IF /\ dotIndex > sepIndex
           /\ \E i \in (sepIndex + 1)..(dotIndex - 1) : p[i] # "."
        THEN <<SubSeq(p, 1, dotIndex - 1), SubSeq(p, dotIndex, Len(p))>>
        ELSE <<p, <<>> >>

UpperCase == <<"A", "B", "C", "D", "E", "F", "G", "H", "I", "J", "K", "L", "M",
               "N", "O", "P", "Q", "R", "S", "T", "U", "V", "W", "X", "Y", "Z">>
LowerCase == <<"a", "b", "c", "d", "e", "f", "g", "h", "i", "j", "k", "l", "m",
               "n", "o", "p", "q", "r", "s", "t", "u", "v", "w", "x", "y", "z">>

\* str.lower
lower(s) ==
    [i \in 1..Len(s) |->
        IF \E k \in 1..Len(UpperCase) : UpperCase[k] = s[i]
        THEN LowerCase[CHOOSE k \in 1..Len(UpperCase) : UpperCase[k] = s[i]]
        ELSE s[i]]

\* str.split(): the maximal runs of non-blank characters
RECURSIVE split(_)
split(s) ==
    IF s = <<>> THEN <<>>
    ELSE IF Head(s) = " " THEN split(Tail(s))
    ELSE LET blanks == {i \in 1..Len(s) : s[i] = " "}
             n == IF blanks = {} THEN Len(s) ELSE MinOf(blanks) - 1
         IN  <<SubSeq(s, 1, n)>> \o split(SubSeq(s, n + 1, Len(s)))

Digits == <<"0", "1", "2", "3", "4", "5", "6", "7", "8", "9">>

\* f"{n}" of a non-negative integer
RECURSIVE str(_)
str(n) == IF n < 10 THEN <<Digits[n + 1]>> ELSE str(n \div 10) \o <<Digits[(n % 10) + 1]>>

\* the elements of a sequence
Range(s) == {s[i] : i \in 1..Len(s)}

\* the orders in which the entries S of a directory can be listed
Perms(S) ==
    IF S = {} THEN {<<>>}
    ELSE {s \in [1..Cardinality(S) -> S] : \A i, j \in 1..Cardinality(S) : i # j => s[i] # s[j]}

(***************************************************************************)
(* The file system.                                                        *)
(***************************************************************************)
is_file(f, p) == p \in DOMAIN f.files
is_dir(f, p) == p \in f.dirs
\* os.path.exists
exists(f, p) == is_file(f, p) \/ is_dir(f, p)
\* os.listdir / os.scandir: the entries of directory p
listdir(f, p) == {q \in (DOMAIN f.files) \cup f.dirs : q # p /\ q # <<>> /\ dirname(q) = p}

(***************************************************************************)
(* get_file_info                                                           *)
(***************************************************************************)
\* The concatenations x1 \o x2 \o ... with xi drawn from the i-th set of seqOfSets
\* scan_dir: os.scandir lists a directory in an order of the operating system's
\* choosing, so scan_dir is the set of runs the generator can make, one for
\* every listing order of every directory it reads.  A run is [paths, raised]:
\* the file paths yielded, and whether os.scandir raised on a directory of
\* denied (one the process may not read), which ends the generator there.
RECURSIVE scan_dir(_, _, _, _)
RECURSIVE scan_entries(_, _, _, _, _)
\* for entry in entries, from the i-th on
scan_entries(f, entries, i, top_level_only, denied) ==
    IF i > Len(entries) THEN {[paths |-> <<>>, raised |-> FALSE]}
    ELSE LET heads == IF is_file(f, entries[i])
                      THEN {[paths |-> <<entries[i]>>, raised |-> FALSE]}
                      ELSE IF ~top_level_only /\ is_dir(f, entries[i])
                           THEN scan_dir(f, entries[i], top_level_only, denied)
                           ELSE {[paths |-> <<>>, raised |-> FALSE]}
         IN  UNION { IF h.raised THEN {h}
                     ELSE {[paths |-> h.paths \o t.paths, raised |-> t.raised]
                             : t \in scan_entries(f, entries, i + 1, top_level_only, denied)}
                     : h \in heads }
scan_dir(f, path, top_level_only, denied) ==
    IF path \in denied THEN {[paths |-> <<>>, raised |-> TRUE]}
    ELSE UNION { scan_entries(f, entries, 1, top_level_only, denied)
                 : entries \in Perms(listdir(f, path)) }

\* the descriptor get_file_info builds for one file path
file_descriptor(file_path) ==
    LET name == basename(file_path)
        e == lower(splitext(name)[2])
    IN  [path |-> file_path,
         name |-> name,
         ext |-> IF e # <<>> THEN e ELSE NO_EXTENSION,
         words |-> split(rsplit1(name, "."))]

\* a path keyed by the whole path instead of the base name is never "seen"
name_seen_by_path(name, file_path, seen_names) == file_path \in seen_names
\* name in seen_names
name_seen(name, file_path, seen_names) == name \in seen_names

\* the body of the loop of get_file_info, run over the paths scan_dir yields
RECURSIVE scan_loop(_, _, _)
scan_loop(paths, i, acc) ==
    IF i > Len(paths) THEN acc
    ELSE LET file_path == paths[i]
             name == basename(file_path)
         IN  IF name_seen(name, file_path, acc.seen_names)
             THEN scan_loop(paths, i + 1,
                            [acc EXCEPT !.duplicates = Append(@, file_path)])
             ELSE scan_loop(paths, i + 1,
                            [acc EXCEPT !.seen_names = @ \cup {name},
                                        !.files = Append(@, file_descriptor(file_path))])

\* get_file_info, given the run of its scan_dir generator: an exception of
\* the generator escapes the loop and the call, and nothing is returned
get_file_info(run) ==
    LET r == scan_loop(run.paths, 1,
                       [files |-> <<>>, seen_names |-> {}, duplicates |-> <<>>])
    IN  IF run.raised THEN [files |-> <<>>, duplicates |-> <<>>, raised |-> TRUE]
        ELSE [files |-> r.files, duplicates |-> r.duplicates, raised |-> FALSE]

(***************************************************************************)
(* Python dicts keep insertion order: a dict is a sequence of              *)
(* [key, val] records with distinct keys.                                  *)
(***************************************************************************)
has_key(d, k) == \E i \in 1..Len(d) : d[i].key = k
key_index(d, k) == CHOOSE i \in 1..Len(d) : d[i].key = k
\* d[k] = v
set_item(d, k, v) ==
    IF has_key(d, k) THEN [d EXCEPT ![key_index(d, k)].val = v]
    ELSE Append(d, [key |-> k, val |-> v])
\* d.setdefault(k, []).append(x)
setdefault_append(d, k, x) ==
    IF has_key(d, k) THEN [d EXCEPT ![key_index(d, k)].val = Append(@, x)]
    ELSE Append(d, [key |-> k, val |-> <<x>>])

(***************************************************************************)
(* hash_file                                                               *)
(***************************************************************************)
\* hashlib.md5(content).hexdigest() for the contents the model uses
md5(content) ==
    CASE content = <<>> ->
           <<"d", "4", "1", "d", "8", "c", "d", "9", "8", "f", "0", "0", "b", "2", "0", "4",
             "e", "9", "8", "0", "0", "9", "9", "8", "e", "c", "f", "8", "4", "2", "7", "e">>
      [] content = <<"a">> ->
           <<"0", "c", "c", "1", "7", "5", "b", "9", "c", "0", "f", "1", "b", "6", "a", "8",
             "3", "1", "c", "3", "9", "9", "e", "2", "6", "9", "7", "7", "2", "6", "6", "1">>
      [] content = <<"b">> ->
           <<"9", "2", "e", "b", "5", "f", "f", "e", "e", "6", "a", "e", "2", "f", "e", "c",
             "3", "a", "d", "7", "1", "c", "7", "7", "7", "5", "3", "1", "5", "7", "8", "f">>

\* hash_file: the digest of the bytes of the file at file_path
hash_file(f, d, file_path) == md5(d[f.files[file_path]])

\* os.path.getsize
getsize(f, d, file_path) == Len(d[f.files[file_path]])

(***************************************************************************)
(* sort_by_type                                                            *)
(***************************************************************************)
\* by_type: extension -> the paths with that extension, in input order
RECURSIVE by_type_loop(_, _, _)
by_type_loop(files, i, by_type) ==
    IF i > Len(files) THEN by_type
    ELSE by_type_loop(files, i + 1, setdefault_append(by_type, files[i].ext, files[i].path))

\* src/utils.py names the folders Type_<ext>
type_key_utils(ext) ==
    IF ext # NO_EXTENSION THEN <<"T", "y", "p", "e", "_">> \o SubSeq(ext, 2, Len(ext))
    ELSE NO_EXTENSION_FOLDER

\* the folder name of an extension group
type_key(ext) ==
    IF ext # NO_EXTENSION THEN TYPE_PREFIX \o SubSeq(ext, 2, Len(ext))
    ELSE NO_EXTENSION_FOLDER

\* the loop of the recursive branch
RECURSIVE type_recursive_loop(_, _, _, _)
type_recursive_loop(by_type, i, base_path, suggestions) ==
    IF i > Len(by_type) THEN suggestions
    ELSE LET paths == by_type[i].val
         IN  IF Len(paths) > 1
             THEN type_recursive_loop(by_type, i + 1, base_path,
                      set_item(suggestions, type_key(by_type[i].key), paths))
             ELSE type_recursive_loop(by_type, i + 1, base_path,
                      setdefault_append(suggestions, base_path, paths[1]))

\* src/utils.py keeps an older sort_by_type whose non-recursive branch drops
\* the groups of one file
RECURSIVE type_flat_loop_utils(_, _, _)
type_flat_loop_utils(by_type, i, suggestions) ==
    IF i > Len(by_type) THEN suggestions
    ELSE IF Len(by_type[i].val) > 1
         THEN type_flat_loop_utils(by_type, i + 1,
                  set_item(suggestions, type_key(by_type[i].key), by_type[i].val))
         ELSE type_flat_loop_utils(by_type, i + 1, suggestions)

\* the loop of the non-recursive branch
RECURSIVE type_flat_loop(_, _, _)
type_flat_loop(by_type, i, suggestions) ==
    IF i > Len(by_type) THEN suggestions
    ELSE type_flat_loop(by_type, i + 1,
             set_item(suggestions, type_key(by_type[i].key), by_type[i].val))

sort_by_type(files, recursive, base_path) ==
    LET by_type == by_type_loop(files, 1, <<>>)
    IN  IF recursive /\ base_path # NoPath
        THEN type_recursive_loop(by_type, 1, base_path, <<>>)
        ELSE type_flat_loop(by_type, 1, <<>>)

(***************************************************************************)
(* sort_by_similarity                                                      *)
(***************************************************************************)
\* A score is the fraction num / den, so that (common / total) * 100 is exact.
Score(n, d) == [num |-> n, den |-> d]
\* score >= k
score_ge(score, k) == score.num >= k * score.den

\* the length of the common leading prefix: the zip loop with its break
RECURSIVE prefix_len(_, _, _)
prefix_len(s1, s2, n) ==
    IF n + 1 > Len(s1) \/ n + 1 > Len(s2) THEN n
    ELSE IF s1[n + 1] # s2[n + 1] THEN n
    ELSE prefix_len(s1, s2, n + 1)

\* a boost of 5 in all instead of 5 per character of the prefix
boosted_flat(score, p) ==
    IF score.num + 5 * score.den > 100 * score.den
    THEN [num |-> 100 * score.den, den |-> score.den]
    ELSE [num |-> score.num + 5 * score.den, den |-> score.den]

\* min(100, score + prefix_len * 5)
boosted(score, p) ==
    IF score.num + p * 5 * score.den > 100 * score.den
    THEN Score(100 * score.den, score.den)
    ELSE Score(score.num + p * 5 * score.den, score.den)

\* similarity_score(key1, key2), with the check_contents of the enclosing call
similarity_score(key1, key2, check_contents) ==
    IF check_contents
    THEN IF key1 = key2 THEN Score(100, 1)
         ELSE LET shorter == IF Len(key1) < Len(key2) THEN Len(key1) ELSE Len(key2)
                  common == Cardinality({i \in 1..shorter : key1[i] = key2[i]})
                  total == IF Len(key1) > Len(key2) THEN Len(key1) ELSE Len(key2)
              IN  Score(common * 100, total)
    ELSE LET s1 == lower(rsplit1(key1, "."))
             s2 == lower(rsplit1(key2, "."))
             total == IF Len(s1) > Len(s2) THEN Len(s1) ELSE Len(s2)
             diff == IF Len(s1) > Len(s2) THEN Len(s1) - Len(s2) ELSE Len(s2) - Len(s1)
             common == Cardinality({c \in Range(s1) : c \in Range(s2)})
             score == IF total > 0 THEN Score(common * 100, total) ELSE Score(0, 1)
             p == prefix_len(s1, s2, 0)
         IN  IF diff > total \div 2 THEN Score(0, 1)
             ELSE IF p >= 3 THEN boosted(score, p)
             ELSE score

\* a file that is never marked stays a seed and a comparison target
add_processed_forgotten(processed, path) == processed
\* processed.add(path)
add_processed(processed, path) == processed \cup {path}

\* a comparison joins the seed's group
joins(score) == score_ge(score, SIMILARITY_THRESHOLD)

\* the inner loop: the files after the seed files[i], from files[j] on.
\* hashes.get(path, hash_file(path)) evaluates hash_file(path) before the
\* lookup, so st.hashed, the list of hash_file calls, grows each time.
RECURSIVE similarity_inner(_, _, _, _, _, _, _)
similarity_inner(f, d, files, j, key1, check_contents, st) ==
    IF j > Len(files) THEN st
    ELSE LET p2 == files[j].path
         IN  IF p2 \in st.processed
             THEN similarity_inner(f, d, files, j + 1, key1, check_contents, st)
             ELSE LET key2 == IF ~check_contents THEN files[j].name
                              ELSE IF p2 \in DOMAIN st.hashes THEN st.hashes[p2]
                              ELSE hash_file(f, d, p2)
                      st1 == IF check_contents
                             THEN [st EXCEPT !.hashed = Append(@, p2),
                                             !.hashes = IF p2 \in DOMAIN @ THEN @
                                                        ELSE (p2 :> key2) @@ @]
                             ELSE st
                      st2 == IF joins(similarity_score(key1, key2, check_contents))
                             THEN [st1 EXCEPT !.group = Append(@, p2),
                                              !.processed = add_processed(@, p2)]
                             ELSE st1
                  IN  similarity_inner(f, d, files, j + 1, key1, check_contents, st2)

\* the outer loop: files[i] is the next seed
RECURSIVE similarity_outer(_, _, _, _, _, _)
similarity_outer(f, d, files, i, check_contents, st) ==
    IF i > Len(files) THEN st
    ELSE LET p1 == files[i].path
         IN  IF p1 \in st.processed
             THEN similarity_outer(f, d, files, i + 1, check_contents, st)
             ELSE LET key1 == IF check_contents THEN hash_file(f, d, p1) ELSE files[i].name
                      st1 == IF check_contents
                             THEN [st EXCEPT !.group = <<p1>>,
                                             !.hashed = Append(@, p1),
                                             !.hashes = (p1 :> key1) @@ @]
                             ELSE [st EXCEPT !.group = <<p1>>]
                      st2 == similarity_inner(f, d, files, i + 1, key1, check_contents, st1)
                      st3 == IF Len(st2.group) > 1
                             THEN [st2 EXCEPT
                                     !.suggestions =
                                         set_item(@, SIMILAR_PREFIX \o str(st2.group_counter),
                                                  st2.group),
                                     !.group_counter = @ + 1]
                             ELSE st2
                  IN  similarity_outer(f, d, files, i + 1, check_contents,
                                       [st3 EXCEPT !.processed = add_processed(@, p1)])

\* sort_by_similarity on the files of file system f with contents d:
\* [suggestions, hashed], hashed the hash_file calls in order
sort_by_similarity(f, d, files, check_contents) ==
    LET st == similarity_outer(f, d, files, 1, check_contents,
                  [suggestions |-> <<>>, processed |-> {}, hashes |-> <<>>,
                   group_counter |-> 1, group |-> <<>>, hashed |-> <<>>])
    IN  [suggestions |-> st.suggestions, hashed |-> st.hashed]

(***************************************************************************)
(* move_files_into_one_folder                                              *)
(***************************************************************************)
\* without the test of files: a group is returned for an empty list too
one_folder_unguarded(files) ==
    <<[key |-> ALL_FILES_FOLDER, val |-> [i \in 1..Len(files) |-> files[i].path]]>>
move_files_into_one_folder(files) ==
    IF files # <<>>
    THEN <<[key |-> ALL_FILES_FOLDER, val |-> [i \in 1..Len(files) |-> files[i].path]]>>
    ELSE <<>>

(***************************************************************************)
(* The file-system calls of the executors.  An executor state is           *)
(* [fs, log, raised]: the file system, the calls made so far and whether   *)
(* an exception has escaped.                                               *)
(***************************************************************************)
\* p is path src, or a path below directory src
within(p, src) ==
    \/ p = src
    \/ /\ Len(p) > Len(src)
       /\ SubSeq(p, 1, Len(src) + 1) = src \o <<"/">>
\* p with its leading src replaced by dst
rebase(p, src, dst) == dst \o SubSeq(p, Len(src) + 1, Len(p))

\* os.rename(src, dst) where it succeeds: a file replaces a file at dst,
\* a directory is renamed with everything below it
rename(f, src, dst) ==
    IF is_file(f, src)
    THEN [files |-> [p \in ((DOMAIN f.files) \ {src}) \cup {dst} |->
                        IF p = dst THEN f.files[src] ELSE f.files[p]],
          dirs |-> f.dirs]
    ELSE [files |-> [p \in {IF within(q, src) THEN rebase(q, src, dst) ELSE q
                               : q \in DOMAIN f.files} |->
                        IF within(p, dst) /\ rebase(p, dst, src) \in DOMAIN f.files
                        THEN f.files[rebase(p, dst, src)] ELSE f.files[p]],
          dirs |-> {IF within(q, src) THEN rebase(q, src, dst) ELSE q : q \in f.dirs}]


\* os.makedirs(path, exist_ok=True): [fs, ok], ok false when it raises
RECURSIVE makedirs(_, _)
makedirs(f, path) ==
    IF is_dir(f, path) THEN [fs |-> f, ok |-> TRUE]
    ELSE IF is_file(f, path) \/ path = <<>> THEN [fs |-> f, ok |-> FALSE]
    ELSE LET head == dirname(path)
             up == IF head # <<>> /\ ~exists(f, head) THEN makedirs(f, head)
                   ELSE [fs |-> f, ok |-> TRUE]
         IN  IF ~up.ok \/ (head # <<>> /\ ~is_dir(up.fs, head))
             THEN [fs |-> up.fs, ok |-> FALSE]
             ELSE [fs |-> [up.fs EXCEPT !.dirs = @ \cup {path}], ok |-> TRUE]

\* shutil.move(src, dst): [fs, ok], ok false when it raises.  Where os.rename
\* fails, a file is copied (which needs the destination's directory) and a
\* directory is copied with copytree, which makes the missing directories
\* above the destination, and then removed.
shutil_move(f, src, dst) ==
    LET real_dst == IF is_dir(f, dst) /\ src # dst THEN join(dst, basename(src)) ELSE dst
        above == makedirs(f, dirname(real_dst))
    IN  IF ~exists(f, src) THEN [fs |-> f, ok |-> FALSE]
        ELSE IF is_dir(f, dst) /\ src = dst THEN [fs |-> f, ok |-> TRUE]
        ELSE IF is_dir(f, dst) /\ exists(f, real_dst) THEN [fs |-> f, ok |-> FALSE]
        ELSE IF is_dir(f, src) /\ (within(real_dst, src) \/ is_file(f, real_dst))
             THEN [fs |-> f, ok |-> FALSE]
        ELSE IF is_dir(f, dirname(real_dst))
             THEN [fs |-> rename(f, src, real_dst), ok |-> TRUE]
        ELSE IF is_dir(f, src) /\ above.ok
             THEN [fs |-> rename(above.fs, src, real_dst), ok |-> TRUE]
        ELSE [fs |-> f, ok |-> FALSE]

\* shutil.rmtree(path)
rmtree(f, path) ==
    [files |-> [p \in {q \in DOMAIN f.files : ~within(q, path)} |-> f.files[p]],
     dirs |-> {q \in f.dirs : ~within(q, path)}]

(***************************************************************************)
(* safe_move_file, safe_move_folder, safe_delete_folder                    *)
(***************************************************************************)
\* one retry instead of a loop: the name with counter 1 is taken unchecked
free_dest_one_retry(f, dest_folder, prefix, base_name, dest, counter) ==
    IF exists(f, dest)
    THEN join(dest_folder, prefix \o splitext(base_name)[1] \o <<"_">>
                             \o str(counter) \o splitext(base_name)[2])
    ELSE dest
\* the while loop of safe_move_file: the first free destination
RECURSIVE free_dest(_, _, _, _, _, _)
free_dest(f, dest_folder, prefix, base_name, dest, counter) ==
    IF exists(f, dest)
    THEN free_dest(f, dest_folder, prefix, base_name,
                   join(dest_folder, prefix \o splitext(base_name)[1] \o <<"_">>
                                       \o str(counter) \o splitext(base_name)[2]),
                   counter + 1)
    ELSE dest

\* safe_move_file: a failing shutil.move is logged, never raised
safe_move_file(st, src, dest_folder, prefix) ==
    LET base_name == basename(src)
        dest == free_dest(st.fs, dest_folder, prefix, base_name,
                          join(dest_folder, prefix \o base_name), 1)
        m == shutil_move(st.fs, src, dest)
    IN  [st EXCEPT !.fs = m.fs,
                   !.log = Append(@, [op |-> "move_file", src |-> src, folder |-> dest_folder,
                                      dest |-> dest, ok |-> m.ok, before |-> st.fs,
                                      after |-> m.fs])]

\* safe_move_folder
safe_move_folder(st, src, dest_folder) ==
    LET dest == join(dest_folder, basename(src))
        m == shutil_move(st.fs, src, dest)
    IN  [st EXCEPT !.fs = m.fs,
                   !.log = Append(@, [op |-> "move_folder", src |-> src, folder |-> dest_folder,
                                      dest |-> dest, ok |-> m.ok, before |-> st.fs,
                                      after |-> m.fs])]

\* safe_delete_folder
safe_delete_folder(st, path) ==
    [st EXCEPT !.fs = IF is_dir(st.fs, path) THEN rmtree(st.fs, path) ELSE st.fs,
               !.log = Append(@, [op |-> "delete_folder", src |-> path, folder |-> path,
                                  dest |-> path, ok |-> is_dir(st.fs, path),
                                  before |-> st.fs,
                                  after |-> IF is_dir(st.fs, path) THEN rmtree(st.fs, path)
                                            ELSE st.fs])]

(***************************************************************************)
(* organize_files                                                          *)
(***************************************************************************)
\* the try wrapped around the whole loop: a failure ends the group
next_file_group_try(i, n, ok) == IF ok THEN i + 1 ELSE n + 1
\* the file the loop over a group handles after file i, whose move went ok or not
next_file(i, n, ok) == i + 1

\* for file_path in files: safe_move_file(file_path, new_folder)
RECURSIVE move_group(_, _, _, _)
move_group(st, files, i, new_folder) ==
    IF i > Len(files) THEN st
    ELSE LET st1 == safe_move_file(st, files[i], new_folder, <<>>)
         IN  move_group(st1, files, next_file(i, Len(files), st1.log[Len(st1.log)].ok),
                        new_folder)

\* for folder_name, files in suggestions.items()
RECURSIVE move_pass(_, _, _, _)
move_pass(st, suggestions, g, root_path) ==
    IF g > Len(suggestions) \/ st.raised THEN st
    ELSE LET folder_name == suggestions[g].key
             new_folder == IF folder_name = root_path THEN folder_name
                           ELSE join(root_path, folder_name)
             made == makedirs(st.fs, new_folder)
             st1 == [st EXCEPT !.fs = made.fs,
                               !.log = Append(@, [op |-> "makedirs", src |-> new_folder,
                                                  folder |-> new_folder, dest |-> new_folder,
                                                  ok |-> made.ok, before |-> st.fs,
                                                  after |-> made.fs])]
         IN  IF ~made.ok THEN [st1 EXCEPT !.raised = TRUE]
             ELSE move_pass(move_group(st1, suggestions[g].val, 1, new_folder),
                            suggestions, g + 1, root_path)

\* the directories os.walk(root_path, topdown=False) finds empty, other than
\* root_path (nothing changes during this walk, so its order does not matter)
empty_folders_found(f, root_path) ==
    \E d \in f.dirs : within(d, root_path) /\ d # root_path /\ listdir(f, d) = {}

\* what the loop body does with a directory the walk yields
visit(st, root, root_path, delete_empty) ==
    IF delete_empty
    THEN IF root # root_path /\ listdir(st.fs, root) = {}
         THEN safe_delete_folder(st, root) ELSE st
    ELSE IF /\ root # root_path
            /\ root # join(root_path, EMPTY_FOLDERS_FOLDER)
            /\ listdir(st.fs, root) = {}
         THEN safe_move_folder(st, root, join(root_path, EMPTY_FOLDERS_FOLDER))
         ELSE st

\* os.walk(top, topdown=False) with the loop body run at each yield: the set
\* of executor states it can end in.  A directory is listed when the walk
\* reaches it, its subdirectories are walked in the order of that listing,
\* each one read only when its turn comes (one that is gone by then is
\* skipped), and the directory itself is yielded last.
RECURSIVE walk(_, _, _, _)
RECURSIVE walk_dirs(_, _, _, _, _)
walk_dirs(sts, dirs, i, root_path, delete_empty) ==
    IF i > Len(dirs) THEN sts
    ELSE walk_dirs(UNION {walk(st, dirs[i], root_path, delete_empty) : st \in sts},
                   dirs, i + 1, root_path, delete_empty)
\* the walk top-down: a directory is yielded before its subdirectories are walked
walk_topdown(st, top, root_path, delete_empty) ==
    IF ~is_dir(st.fs, top) THEN {st}
    ELSE UNION { walk_dirs({visit(st, top, root_path, delete_empty)}, dirs, 1,
                           root_path, delete_empty)
                 : dirs \in Perms({d \in listdir(st.fs, top) : is_dir(st.fs, d)}) }
walk(st, top, root_path, delete_empty) ==
    IF ~is_dir(st.fs, top) THEN {st}
    ELSE UNION { {visit(s, top, root_path, delete_empty)
                    : s \in walk_dirs({st}, dirs, 1, root_path, delete_empty)}
                 : dirs \in Perms({d \in listdir(st.fs, top) : is_dir(st.fs, d)}) }

\* if recursive and cleanup: ...
cleanup_pass(st, root_path, delete_empty) ==
    IF ~empty_folders_found(st.fs, root_path) THEN {st}
    ELSE IF delete_empty THEN walk(st, root_path, root_path, TRUE)
    ELSE LET empty_folders == join(root_path, EMPTY_FOLDERS_FOLDER)
             made == makedirs(st.fs, empty_folders)
             st1 == [st EXCEPT !.fs = made.fs,
                               !.log = Append(@, [op |-> "makedirs", src |-> empty_folders,
                                                  folder |-> empty_folders,
                                                  dest |-> empty_folders,
                                                  ok |-> made.ok, before |-> st.fs,
                                                  after |-> made.fs])]
         IN  IF ~made.ok THEN {[st1 EXCEPT !.raised = TRUE]}
             ELSE walk(st1, root_path, root_path, FALSE)

\* suggestions[next(iter(suggestions))][0] can be evaluated
has_first_path(suggestions) == suggestions # <<>> /\ suggestions[1].val # <<>>

\* organize_files: the set of executor states it can end in
organize_files(f, suggestions, recursive, cleanup, delete_empty, base_path) ==
    LET st0 == [fs |-> f, log |-> <<>>, raised |-> FALSE]
        root_path == IF base_path # NoPath THEN base_path
                     ELSE rsplit1(suggestions[1].val[1], "/")
    IN  IF base_path = NoPath /\ ~has_first_path(suggestions)
        THEN {[st0 EXCEPT !.raised = TRUE]}
        ELSE LET st1 == move_pass(st0, suggestions, 1, root_path)
             IN  IF st1.raised \/ ~(recursive /\ cleanup) THEN {st1}
                 ELSE cleanup_pass(st1, root_path, delete_empty)

(***************************************************************************)
(* move_duplicates                                                         *)
(***************************************************************************)
\* by_hash: digest -> the non-empty candidates with that digest
RECURSIVE by_hash_loop(_, _, _, _, _)
by_hash_loop(f, d, duplicates, i, by_hash) ==
    IF i > Len(duplicates) THEN by_hash
    ELSE IF getsize(f, d, duplicates[i]) > 0
         THEN by_hash_loop(f, d, duplicates, i + 1,
                  setdefault_append(by_hash, hash_file(f, d, duplicates[i]), duplicates[i]))
         ELSE by_hash_loop(f, d, duplicates, i + 1, by_hash)

\* every hashed candidate is kept, also the only one with its digest
RECURSIVE flatten_groups_all(_, _)
flatten_groups_all(by_hash, i) ==
    IF i > Len(by_hash) THEN <<>>
    ELSE by_hash[i].val \o flatten_groups_all(by_hash, i + 1)

\* [path for paths in by_hash.values() if len(paths) > 1 for path in paths]
RECURSIVE flatten_groups(_, _)
flatten_groups(by_hash, i) ==
    IF i > Len(by_hash) THEN <<>>
    ELSE (IF Len(by_hash[i].val) > 1 THEN by_hash[i].val ELSE <<>>)
           \o flatten_groups(by_hash, i + 1)

\* the while loop of move_duplicates: the first free Dupe<counter>_<name>
RECURSIVE dupe_dest(_, _, _, _)
dupe_dest(f, dup_folder, base_name, counter) ==
    LET dest_path == join(dup_folder, DUPLICATE_PREFIX \o str(counter) \o <<"_">> \o base_name)
    IN  IF exists(f, dest_path) THEN dupe_dest(f, dup_folder, base_name, counter + 1)
        ELSE dest_path

\* for i, path in enumerate(final_dups): dest_path is computed and not used;
\* the file is moved by safe_move_file with the prefix "Dupe_"
RECURSIVE move_dups_loop(_, _, _, _)
move_dups_loop(st, final_dups, i, dup_folder) ==
    IF i > Len(final_dups) THEN st
    ELSE LET path == final_dups[i]
             dest_path == dupe_dest(st.fs, dup_folder, basename(path), i - 1)
             st1 == safe_move_file(st, path, dup_folder, DUPLICATE_PREFIX \o <<"_">>)
         IN  move_dups_loop([st1 EXCEPT !.log[Len(st1.log)] =
                                 [op |-> "move_duplicate", src |-> @.src, folder |-> @.folder,
                                  dest |-> @.dest, ok |-> @.ok, before |-> @.before,
                                  after |-> @.after, index |-> i - 1, dest_path |-> dest_path]],
                            final_dups, i + 1, dup_folder)

\* move_duplicates: the executor state it ends in
move_duplicates(f, d, duplicates, base_path, check_contents) ==
    LET st0 == [fs |-> f, log |-> <<>>, raised |-> FALSE, final_dups |-> <<>>]
        dup_folder == join(base_path, DUPLICATES_FOLDER)
        made == makedirs(f, dup_folder)
        final_dups == IF check_contents
                      THEN flatten_groups(by_hash_loop(f, d, duplicates, 1, <<>>), 1)
                      ELSE duplicates
    IN  IF duplicates = <<>> THEN st0
        ELSE IF ~made.ok THEN [st0 EXCEPT !.raised = TRUE]
        ELSE IF check_contents /\ \E i \in 1..Len(duplicates) : ~is_file(f, duplicates[i])
             THEN [st0 EXCEPT !.fs = made.fs, !.raised = TRUE]
        ELSE move_dups_loop([st0 EXCEPT !.fs = made.fs, !.final_dups = final_dups],
                            final_dups, 1, dup_folder)

(***************************************************************************)
(* The state machine: scan, group, execute.                                *)
(***************************************************************************)
\* the directory the user selected
Root == <<"/", "r">>

NoScan == [folder |-> NoPath, recursive |-> FALSE, denied |-> {}, yielded |-> <<>>,
           files |-> <<>>, duplicates |-> <<>>, raised |-> FALSE]
NoPlan == [strategy |-> "none", recursive |-> FALSE, check_contents |-> FALSE,
           base_path |-> NoPath, suggestions |-> <<>>, hashed |-> <<>>]
NoCall == [op |-> "none"]
NoOut == [log |-> <<>>, raised |-> FALSE]

\* A file system under Root: some of the directories subdirs, at most n files
\* with names from names in them, each with a content from contents.
InitTree(names, subdirs, contents, n) ==
    /\ pc = "start"
    /\ scan = NoScan
    /\ plan = NoPlan
    /\ call = NoCall
    /\ out = NoOut
    /\ \E D \in SUBSET subdirs :
         \E P \in SUBSET {join(d, nm) : d \in {Root} \cup D, nm \in names} :
            /\ \A d \in D : dirname(d) \in {Root} \cup D
            /\ Cardinality(P) <= n
            /\ fs = [files |-> [p \in P |-> p], dirs |-> {Root} \cup D]
            /\ pre = fs
            /\ data \in [P -> contents]

\* the user selects Root and the folder is analysed
Scan ==
    /\ pc = "start"
    /\ \E recursive \in BOOLEAN :
         \E run \in scan_dir(fs, Root, ~recursive, {}) :
            LET r == get_file_info(run)
            IN  scan' = [folder |-> Root, recursive |-> recursive, denied |-> {}, yielded |-> run.paths,
                         files |-> r.files, duplicates |-> r.duplicates,
                         raised |-> r.raised]
    /\ pc' = "scanned"
    /\ UNCHANGED <<fs, data, plan, pre, call, out>>

\* the same when the process may not read one of the subdirectories: if
\* get_file_info raises, the analysis ends there
ScanDenied ==
    /\ pc = "start"
    /\ \E recursive \in BOOLEAN, d \in fs.dirs \ {Root} :
         \E run \in scan_dir(fs, Root, ~recursive, {d}) :
            LET r == get_file_info(run)
            IN  /\ scan' = [folder |-> Root, recursive |-> recursive, denied |-> {d}, yielded |-> run.paths,
                            files |-> r.files, duplicates |-> r.duplicates,
                            raised |-> r.raised]
                /\ pc' = IF r.raised THEN "failed" ELSE "scanned"
    /\ UNCHANGED <<fs, data, plan, pre, call, out>>

\* "Sort Type"
SortByType ==
    /\ pc = "scanned"
    /\ \E recursive \in BOOLEAN, base_path \in {NoPath, Root} :
         plan' = [strategy |-> "type", recursive |-> recursive, check_contents |-> FALSE,
                  base_path |-> base_path,
                  suggestions |-> sort_by_type(scan.files, recursive, base_path),
                  hashed |-> <<>>]
    /\ pc' = "suggested"
    /\ UNCHANGED <<fs, data, scan, pre, call, out>>

\* "Sort Similar"
SortBySimilarity ==
    /\ pc = "scanned"
    /\ \E check_contents \in BOOLEAN :
         LET r == sort_by_similarity(fs, data, scan.files, check_contents)
         IN  plan' = [strategy |-> "similarity", recursive |-> FALSE,
                      check_contents |-> check_contents, base_path |-> NoPath,
                      suggestions |-> r.suggestions, hashed |-> r.hashed]
    /\ pc' = "suggested"
    /\ UNCHANGED <<fs, data, scan, pre, call, out>>

\* "Move Files to Single Folder"
OneFolder ==
    /\ pc = "scanned"
    /\ plan' = [strategy |-> "one_folder", recursive |-> FALSE, check_contents |-> FALSE,
                base_path |-> NoPath,
                suggestions |-> move_files_into_one_folder(scan.files),
                hashed |-> <<>>]
    /\ pc' = "suggested"
    /\ UNCHANGED <<fs, data, scan, pre, call, out>>

\* a caller of organize_files that builds the plan itself: every file the
\* scan met, same-named ones included, into one folder
CallerPlan ==
    /\ pc = "scanned"
    /\ \E label \in {ALL_FILES_FOLDER, Root} :
         plan' = [strategy |-> "caller", recursive |-> FALSE, check_contents |-> FALSE,
                  base_path |-> NoPath,
                  suggestions |-> <<[key |-> label, val |-> scan.yielded]>>,
                  hashed |-> <<>>]
    /\ pc' = "suggested"
    /\ UNCHANGED <<fs, data, scan, pre, call, out>>

\* between the analysis and the execution a file of the plan disappears
Remove ==
    /\ pc = "suggested"
    /\ \E g \in 1..Len(plan.suggestions) :
         \E k \in 1..Len(plan.suggestions[g].val) :
            LET p == plan.suggestions[g].val[k]
            IN  /\ is_file(fs, p)
                /\ fs' = [fs EXCEPT !.files = [q \in (DOMAIN @) \ {p} |-> @[q]]]
    /\ pc' = "removed"
    /\ UNCHANGED <<data, scan, plan, pre, call, out>>

\* <<recursive, cleanup, delete_empty>>: no reconciliation of empty folders,
\* deletion, relocation.  organize_files reads the three flags only as
\* "recursive and cleanup" and then delete_empty, so every other combination
\* behaves as the first.
CleanupModes == {<<FALSE, FALSE, FALSE>>, <<TRUE, TRUE, TRUE>>, <<TRUE, TRUE, FALSE>>}

\* the entry of analyze_folder's result the button of a strategy reads:
\* [suggestions, hashed] for the descriptors files of folder
analyze_folder(f, d, strategy, files, folder, recursive, check_contents) ==
    IF strategy = "type"
    THEN [suggestions |-> sort_by_type(files, recursive, folder), hashed |-> <<>>]
    ELSE IF strategy = "similarity"
    THEN sort_by_similarity(f, d, files, check_contents)
    ELSE [suggestions |-> move_files_into_one_folder(files), hashed |-> <<>>]

\* the plan is one the analysis of the selected folder shows: analyze_folder
\* groups by type with the scan's recursive flag and the folder as base_path
GuiPlan ==
    /\ plan.strategy \in {"type", "similarity", "one_folder"}
    /\ plan.strategy = "type" => (plan.base_path = Root /\ plan.recursive = scan.recursive)

\* the check boxes <<Include Subfolders, Sort Empty Folders, Delete Empty
\* Folders>> as the handler finds them
Boxes == BOOLEAN \X BOOLEAN \X BOOLEAN

\* the user clicks the button of the plan's strategy: on_organize runs
\* organize_files on the selected folder with the flags of the check boxes and
\* calls reset_and_reanalyze, which opens the folder dialog and waits in it.
\* An exception of organize_files ends the handler at once.
Organize ==
    /\ pc \in {"suggested", "removed"}
    /\ GuiPlan
    /\ \E boxes \in Boxes :
         \E st \in organize_files(fs, plan.suggestions, boxes[1], boxes[2], boxes[3], Root) :
            /\ fs' = st.fs
            /\ out' = [log |-> st.log, raised |-> st.raised]
            /\ call' = [op |-> "organize_files", suggestions |-> plan.suggestions,
                        recursive |-> boxes[1], cleanup |-> boxes[2],
                        delete_empty |-> boxes[3], base_path |-> Root]
            /\ pc' = IF st.raised THEN "done" ELSE "dialog"
    /\ pre' = fs
    /\ UNCHANGED <<data, scan, plan>>

\* while the folder dialog is open a file of the folder disappears
RemoveInDialog ==
    /\ pc = "dialog"
    /\ \E p \in DOMAIN fs.files :
         fs' = [fs EXCEPT !.files = [q \in (DOMAIN @) \ {p} |-> @[q]]]
    /\ pc' = "dialog_removed"
    /\ UNCHANGED <<data, scan, plan, pre, call, out>>

\* the user confirms a folder in the dialog: on_select analyses it, reading
\* the Include Subfolders box (unchanged since the click, the dialog being
\* modal) and the Sort By Contents box, and replaces the files, duplicates
\* and suggestions.  The model follows one click per run.
Reanalyze ==
    /\ pc \in {"dialog", "dialog_removed"}
    /\ \E folder \in fs.dirs,
          check_contents \in (IF plan.strategy = "similarity" THEN BOOLEAN ELSE {FALSE}) :
         \E run \in scan_dir(fs, folder, ~call.recursive, {}) :
            LET r == get_file_info(run)
                s == analyze_folder(fs, data, plan.strategy, r.files, folder,
                                    call.recursive, check_contents)
            IN  /\ scan' = [folder |-> folder, recursive |-> call.recursive, denied |-> {},
                            yielded |-> run.paths, files |-> r.files,
                            duplicates |-> r.duplicates, raised |-> r.raised]
                /\ plan' = [plan EXCEPT !.recursive = call.recursive,
                                        !.check_contents = check_contents,
                                        !.base_path = IF plan.strategy = "type"
                                                      THEN folder ELSE @,
                                        !.suggestions = s.suggestions,
                                        !.hashed = s.hashed]
    /\ pc' = "analysed"
    /\ UNCHANGED <<fs, data, pre, call, out>>

\* the user cancels the dialog: select_folder returns None and on_select
\* changes nothing
CancelDialog ==
    /\ pc \in {"dialog", "dialog_removed"}
    /\ pc' = "idle"
    /\ UNCHANGED <<fs, data, scan, plan, pre, call, out>>

\* organize_files called directly, as the tests do, on any plan and with or
\* without a base_path
CallOrganize ==
    /\ pc \in {"suggested", "removed"}
    /\ \E mode \in CleanupModes, base_path \in {NoPath, Root} :
         \E st \in organize_files(fs, plan.suggestions, mode[1], mode[2], mode[3], base_path) :
            /\ fs' = st.fs
            /\ out' = [log |-> st.log, raised |-> st.raised]
            /\ call' = [op |-> "organize_files", suggestions |-> plan.suggestions,
                        recursive |-> mode[1], cleanup |-> mode[2],
                        delete_empty |-> mode[3], base_path |-> base_path]
    /\ pre' = fs
    /\ pc' = "done"
    /\ UNCHANGED <<data, scan, plan>>

\* move_duplicates called directly, as the tests do, on the duplicates of the
\* scan, none included (the handler on_sort_duplicates is connected to no
\* button, so the window never calls it)
MoveDuplicates ==
    /\ pc = "scanned"
    /\ \E check_contents \in BOOLEAN :
         LET st == move_duplicates(fs, data, scan.duplicates, Root, check_contents)
         IN  /\ fs' = st.fs
             /\ out' = [log |-> st.log, raised |-> st.raised]
             /\ call' = [op |-> "move_duplicates", duplicates |-> scan.duplicates,
                         base_path |-> Root, check_contents |-> check_contents,
                         final_dups |-> st.final_dups]
    /\ pre' = fs
    /\ pc' = "done"
    /\ UNCHANGED <<data, scan, plan>>

OrgNames == {<<"a", ".", "t">>, <<"a", "_", "1", ".", "t">>, <<"b">>}
OrgDirs == {<<"/", "r", "/", "s">>, <<"/", "r", "/", "T", "y", "p", "e", " ", "t">>}
OneContent == {<<"a">>}

InitScan == InitTree(OrgNames, OrgDirs, OneContent, MaxFiles)
NextScan == Scan
SpecScan == InitScan /\ [][NextScan]_vars

\* scanning a tree one subdirectory of which cannot be read
NextDenied == ScanDenied
SpecDenied == InitScan /\ [][NextDenied]_vars

\* the whole cycle: scan, group by type or into one folder, execute
PlanDirs == {<<"/", "r", "/", "T", "y", "p", "e", " ", "t">>}
Init == InitTree(OrgNames, PlanDirs, OneContent, MaxFiles)
Next == Scan \/ SortByType \/ OneFolder \/ CallerPlan \/ Remove \/ CallOrganize
Spec == Init /\ [][Next]_vars

\* scanning a tree with one file name in several directories and moving the
\* duplicates away
DupNames == {<<"a", ".", "t">>}
DupDirs == {<<"/", "r", "/", "s">>, <<"/", "r", "/", "u">>,
            <<"/", "r", "/", "D", "u", "p", "l", "i", "c", "a", "t", "e", "s">>}
ThreeContents == {<<>>, <<"a">>, <<"b">>}
InitDup == InitTree(DupNames, DupDirs, ThreeContents, MaxDupFiles)
NextDup == Scan \/ MoveDuplicates
SpecDup == InitDup /\ [][NextDup]_vars

\* scanning and grouping by type
NextType == Scan \/ SortByType
SpecType == InitScan /\ [][NextType]_vars

\* scanning and consolidating into one folder
NextOne == Scan \/ OneFolder
SpecOne == InitScan /\ [][NextOne]_vars

\* scanning one flat folder and grouping by similarity
SimNames == {<<"d", "o", "c", "1", ".", "t", "x", "t">>,
             <<"d", "o", "c", "2", ".", "t", "x", "t">>,
             <<"a">>,
             <<"z", "z", "z", "z", "z", "z", "z", "z", "z", "z">>,
             <<"a", "b">>,
             <<"A", "B">>}
TwoContents == {<<"a">>, <<"b">>}
\* with two contents the names that group by name in two pairs, and one apart
SimContentNames == SimNames \ {<<"z", "z", "z", "z", "z", "z", "z", "z", "z", "z">>}
InitSim == InitTree(SimContentNames, {}, TwoContents, MaxSimFiles)
NextSim == Scan \/ SortBySimilarity
SpecSim == InitSim /\ [][NextSim]_vars

\* the same with one content for all files: the names alone decide
InitNames == InitTree(SimNames, {}, OneContent, MaxSimFiles)
SpecNames == InitNames /\ [][NextSim]_vars

\* scanning one flat folder whose file names have their dots in every place:
\* inside, twice, in upper case, at the end, at the start, nowhere
ExtNames == {<<"a", ".", "t">>, <<"A", ".", "T">>, <<"a", ".", "b", ".", "c">>,
             <<"a", ".">>, <<".", "b">>, <<"b">>}
InitExt == InitTree(ExtNames, {}, OneContent, MaxFiles)
SpecExt == InitExt /\ [][NextScan]_vars

\* a tree of nested directories, two of them with the same name, organized
\* with the empty folders reconciled
CleanNames == {<<"a", ".", "t">>}
CleanDirs == {<<"/", "r", "/", "s">>, <<"/", "r", "/", "s", "/", "x">>,
              <<"/", "r", "/", "u">>, <<"/", "r", "/", "u", "/", "x">>}
InitClean == InitTree(CleanNames, CleanDirs, OneContent, MaxFiles)
NextClean == Scan \/ OneFolder \/ CallerPlan \/ CallOrganize
SpecClean == InitClean /\ [][NextClean]_vars

\* the executors called directly, as the tests call them, also on what a scan
\* that met no file gives
WindowDirs == {<<"/", "r", "/", "s">>, <<"/", "r", "/", "s", "/", "x">>}
InitExec == InitTree(CleanNames, WindowDirs, OneContent, MaxFiles)
NextExec == Scan \/ SortByType \/ OneFolder \/ CallOrganize \/ MoveDuplicates
SpecExec == InitExec /\ [][NextExec]_vars

\* the window: the folder is selected and analysed, a strategy button is
\* clicked once, the folder dialog it opens is answered or cancelled
InitWindow == InitTree(CleanNames, WindowDirs, OneContent, MaxFiles)
NextWindow == Scan \/ SortByType \/ SortBySimilarity \/ OneFolder \/ Organize
                 \/ RemoveInDialog \/ Reanalyze \/ CancelDialog
SpecWindow == InitWindow /\ [][NextWindow]_vars

(***************************************************************************)
(* The claims.                                                             *)
(***************************************************************************)
\* an executor has returned: to its direct caller, or to the handler of a
\* button, which then shows the folder dialog
Returned == {"done", "dialog"}
\* the paths of a list of descriptors, in order
PathsOf(files) == [i \in 1..Len(files) |-> files[i].path]
\* the positions <<g, k>> at which path p occurs in suggestion S
Occurrences(S, p) ==
    {gk \in (1..Len(S)) \X (1..Len(scan.files)) :
        gk[2] <= Len(S[gk[1]].val) /\ S[gk[1]].val[gk[2]] = p}
\* the regular files a scan of Root visits
Visited == IF scan.recursive THEN DOMAIN fs.files
           ELSE {p \in DOMAIN fs.files : dirname(p) = Root}

\* C3: the scanner's name-collision policy. files holds at most one descriptor
\* per base filename, the one of the first file of that name in traversal
\* order; every later file of that name is in duplicates and not in files;
\* files and duplicates together hold every visited regular file exactly once.
C3_NameCollisionPolicy ==
    pc = "scanned" =>
        LET y == scan.yielded
            F == scan.files
            D == scan.duplicates
            First(k) == \A j \in 1..(k - 1) : basename(y[j]) # basename(y[k])
        IN  /\ \A i, j \in 1..Len(F) : i # j => F[i].name # F[j].name
            /\ \A k \in 1..Len(y) :
                 IF First(k)
                 THEN /\ \E i \in 1..Len(F) : F[i].path = y[k] /\ F[i].name = basename(y[k])
                      /\ y[k] \notin Range(D)
                 ELSE /\ y[k] \in Range(D)
                      /\ \A i \in 1..Len(F) : F[i].path # y[k]
            /\ Range(y) = Visited
            /\ Len(y) = Cardinality(Visited)
            /\ Len(F) + Len(D) = Len(y)
            /\ Range(PathsOf(F)) \cup Range(D) = Visited

\* a recursive scan that met a.t in two directories: one descriptor, one duplicate
C3_Witness ==
    /\ pc = "scanned"
    /\ scan.recursive
    /\ \E i \in 1..Len(scan.files), k \in 1..Len(scan.duplicates) :
          /\ scan.files[i].name = basename(scan.duplicates[k])
          /\ dirname(scan.files[i].path) # dirname(scan.duplicates[k])

\* C4: sort_by_type partitions its input: every input path is in exactly one
\* group, once; no group holds a path that is not in the input; the union of
\* the groups is the set of input paths.
C4_TypePartition ==
    (pc = "suggested" /\ plan.strategy = "type") =>
        LET S == plan.suggestions
            In == Range(PathsOf(scan.files))
        IN  /\ \A p \in In : Cardinality(Occurrences(S, p)) = 1
            /\ \A g \in 1..Len(S) : Range(S[g].val) \subseteq In
            /\ UNION {Range(S[g].val) : g \in 1..Len(S)} = In
            /\ \A g, h \in 1..Len(S) : g # h => S[g].key # S[h].key

\* three files in two groups, one of them the group kept under the root
C4_Witness ==
    /\ pc = "suggested"
    /\ plan.strategy = "type"
    /\ Len(scan.files) = 3
    /\ Len(plan.suggestions) = 2
    /\ \E g \in 1..Len(plan.suggestions) : plan.suggestions[g].key = Root

\* the label the specification gives the group of extension e
TypeLabel(e) ==
    IF e = <<".", "n", "o", "_", "e", "x", "t", "e", "n", "s", "i", "o", "n">>
    THEN <<"N", "o", " ", "E", "x", "t", "e", "n", "s", "i", "o", "n">>
    ELSE <<"T", "y", "p", "e", " ">> \o Tail(e)
\* the input paths whose descriptor has extension e, in input order
WithExt(e) == PathsOf(SelectSeq(scan.files, LAMBDA d : d.ext = e))

\* C5: labelling. Non-recursive: every extension group, a group of one
\* included, is output under "Type " + extension (or the no-extension label).
\* Recursive (with a scan root): exactly the groups of 2 or more get that
\* label, the groups of one are all under the one key equal to the root, and
\* the root key is absent when there is no group of one.
C5_TypeLabels ==
    (pc = "suggested" /\ plan.strategy = "type") =>
        LET S == plan.suggestions
            exts == {scan.files[i].ext : i \in 1..Len(scan.files)}
            rec == plan.recursive /\ plan.base_path # NoPath
            labelled == IF rec THEN {e \in exts : Len(WithExt(e)) >= 2} ELSE exts
            single == exts \ labelled
        IN  /\ \A e \in labelled :
                 \E g \in 1..Len(S) : S[g].key = TypeLabel(e) /\ S[g].val = WithExt(e)
            /\ {S[g].key : g \in 1..Len(S)} =
                 {TypeLabel(e) : e \in labelled}
                   \cup (IF single # {} THEN {plan.base_path} ELSE {})
            /\ single # {} =>
                 \E g \in 1..Len(S) :
                    /\ S[g].key = plan.base_path
                    /\ Range(S[g].val) = UNION {Range(WithExt(e)) : e \in single}
                    /\ Len(S[g].val) = Cardinality(single)

\* recursive mode: a.t and a_1.t under "Type t", the lone b under the root
C5_Witness ==
    /\ pc = "suggested"
    /\ plan.strategy = "type"
    /\ plan.recursive
    /\ \E g, h \in 1..Len(plan.suggestions) :
          /\ plan.suggestions[g].key = <<"T", "y", "p", "e", " ", "t">>
          /\ Len(plan.suggestions[g].val) = 2
          /\ plan.suggestions[h].key = Root
          /\ Len(plan.suggestions[h].val) = 1
          /\ basename(plan.suggestions[h].val[1]) = <<"b">>

\* C6: sort_by_similarity puts every file in at most one group: no path is in
\* two groups or twice in one, every group has 2 or more members, every member
\* is an input path, and the labels are exactly Similar1..SimilarN.
C6_SimilarityGroups ==
    (pc = "suggested" /\ plan.strategy = "similarity") =>
        LET S == plan.suggestions
            In == Range(PathsOf(scan.files))
        IN  /\ \A p \in In : Cardinality(Occurrences(S, p)) <= 1
            /\ \A g \in 1..Len(S) : Len(S[g].val) >= 2 /\ Range(S[g].val) \subseteq In
            /\ Len(S) <= 9
            /\ \A g \in 1..Len(S) : S[g].key = <<"S", "i", "m", "i", "l", "a", "r", Digits[g + 1]>>

\* four files in two groups, Similar1 and Similar2
C6_Witness ==
    /\ pc = "suggested"
    /\ plan.strategy = "similarity"
    /\ Len(scan.files) = 4
    /\ Len(plan.suggestions) = 2
    /\ plan.suggestions[2].key = <<"S", "i", "m", "i", "l", "a", "r", "2">>

\* the stem of the i-th scanned file: the name up to its last ".", lowercased
Stem(i) == lower(rsplit1(scan.files[i].name, "."))
Longer(a, b) == IF Len(a) > Len(b) THEN Len(a) ELSE Len(b)
Shorter(a, b) == IF Len(a) < Len(b) THEN Len(a) ELSE Len(b)
\* the name-mode score of stems a and b as the specification states it,
\* multiplied by Longer(a, b)
SpecScoreTimesLonger(a, b) ==
    LET longer == Longer(a, b)
        common == Cardinality(Range(a) \cap Range(b))
        prefix == MaxOf({n \in 0..Shorter(a, b) : SubSeq(a, 1, n) = SubSeq(b, 1, n)})
        plain == 100 * common + (IF prefix >= 3 THEN 5 * prefix * longer ELSE 0)
    IN  IF 2 * (Longer(a, b) - Shorter(a, b)) > longer THEN 0
        ELSE IF plain > 100 * longer THEN 100 * longer
        ELSE plain
\* file j is a member of the group seeded by file i
InGroupOf(i, j) ==
    \E g \in 1..Len(plan.suggestions) :
       /\ plan.suggestions[g].val[1] = scan.files[i].path
       /\ \E k \in 2..Len(plan.suggestions[g].val) :
             plan.suggestions[g].val[k] = scan.files[j].path
IndexOfName(nm) == {i \in 1..Len(scan.files) : scan.files[i].name = nm}

\* C7: name mode. The score of every pair of stems lies in [0,100] and is the
\* stated formula (0 on length rejection; else 100 * common / longer, plus
\* 5 per character of a common prefix of 3 or more, capped at 100); a later
\* unassigned file joins the seed's group exactly when the score is >= 60;
\* doc1 and doc2 are grouped (as Similar1 when they are the whole input),
\* a and zzzzzzzzzz score 0 and are not grouped.
C7_NameSimilarity ==
    (pc = "suggested" /\ plan.strategy = "similarity" /\ ~plan.check_contents) =>
        LET F == scan.files
            N == Len(F)
            sc(i, j) == similarity_score(F[i].name, F[j].name, FALSE)
            Assigned(i) == \E h \in 1..(i - 1) : InGroupOf(h, i)
            doc1 == IndexOfName(<<"d", "o", "c", "1", ".", "t", "x", "t">>)
            doc2 == IndexOfName(<<"d", "o", "c", "2", ".", "t", "x", "t">>)
            a == IndexOfName(<<"a">>)
            z == IndexOfName(<<"z", "z", "z", "z", "z", "z", "z", "z", "z", "z">>)
        IN  /\ \A i, j \in 1..N :
                 /\ sc(i, j).den > 0
                 /\ 0 <= sc(i, j).num
                 /\ sc(i, j).num <= 100 * sc(i, j).den
                 /\ sc(i, j).num * Longer(Stem(i), Stem(j))
                      = SpecScoreTimesLonger(Stem(i), Stem(j)) * sc(i, j).den
                 /\ Longer(Stem(i), Stem(j)) = 0 => sc(i, j).num = 0
            /\ \A i, j \in 1..N :
                 i < j =>
                    (InGroupOf(i, j) <=>
                       /\ ~Assigned(i)
                       /\ ~(\E h \in 1..(i - 1) : InGroupOf(h, j))
                       /\ SpecScoreTimesLonger(Stem(i), Stem(j))
                            >= 60 * Longer(Stem(i), Stem(j))
                       /\ Longer(Stem(i), Stem(j)) > 0)
            /\ \A i \in doc1, j \in doc2 :
                 /\ InGroupOf(i, j) \/ InGroupOf(j, i)
                 /\ N = 2 => /\ Len(plan.suggestions) = 1
                             /\ plan.suggestions[1].key = <<"S", "i", "m", "i", "l", "a", "r", "1">>
            /\ \A i \in a, j \in z :
                 /\ sc(i, j).num = 0
                 /\ sc(j, i).num = 0
                 /\ ~InGroupOf(i, j) /\ ~InGroupOf(j, i)

\* doc1.txt, doc2.txt, a and zzzzzzzzzz scanned together: one group, the docs
C7_Witness ==
    /\ pc = "suggested"
    /\ plan.strategy = "similarity"
    /\ ~plan.check_contents
    /\ {scan.files[i].name : i \in 1..Len(scan.files)} =
          {<<"d", "o", "c", "1", ".", "t", "x", "t">>, <<"d", "o", "c", "2", ".", "t", "x", "t">>,
           <<"a">>, <<"z", "z", "z", "z", "z", "z", "z", "z", "z", "z">>}
    /\ Len(plan.suggestions) = 1
    /\ Len(plan.suggestions[1].val) = 2

\* the entries of the log of the last executor call that are file moves
FileMoves == {i \in 1..Len(out.log) : out.log[i].op \in {"move_file", "move_duplicate"}}
\* <dest_folder>/<stem>_<k><ext> for the file name base
Numbered(folder, base, k) ==
    join(folder, splitext(base)[1] \o <<"_">> \o str(k) \o splitext(base)[2])
\* the move of log entry e put the file of e.src at e.dest and changed nothing else
Landed(e) ==
    /\ is_file(e.after, e.dest)
    /\ e.after.files[e.dest] = e.before.files[e.src]
    /\ e.after.dirs = e.before.dirs
    /\ DOMAIN e.after.files = ((DOMAIN e.before.files) \ {e.src}) \cup {e.dest}
    /\ \A p \in (DOMAIN e.before.files) \ {e.src} : e.after.files[p] = e.before.files[p]

\* C1: the collision-safe move of organize_files. A move never overwrites or
\* replaces an existing entry; the file lands at <dest>/<name> when that is
\* free, else at <dest>/<stem>_<k><ext> with k the smallest integer >= 1
\* whose name is free, the extension unchanged; every file the call started
\* with is still there after it, and two source files with the same base
\* name moved into one folder end as two distinct files.
C1_CollisionSafeMove ==
    (pc \in Returned /\ call.op = "organize_files") =>
        /\ \A i \in FileMoves :
             LET e == out.log[i]
                 base == basename(e.src)
                 plain == join(e.folder, base)
                 K == Cardinality((DOMAIN e.before.files) \cup e.before.dirs) + 1
             IN  /\ ~exists(e.before, e.dest)
                 /\ dirname(e.dest) = e.folder
                 /\ IF ~exists(e.before, plain) THEN e.dest = plain
                    ELSE \E k \in 1..K :
                            /\ e.dest = Numbered(e.folder, base, k)
                            /\ \A j \in 1..(k - 1) : exists(e.before, Numbered(e.folder, base, j))
                 /\ splitext(e.dest)[2] = splitext(e.src)[2]
                 /\ is_file(e.before, e.src) => (e.ok /\ Landed(e))
                 /\ ~is_file(e.before, e.src) => (~e.ok /\ e.after = e.before)
        /\ {fs.files[p] : p \in DOMAIN fs.files} = {pre.files[p] : p \in DOMAIN pre.files}
        /\ Cardinality(DOMAIN fs.files) = Cardinality(DOMAIN pre.files)
        /\ \A i, j \in FileMoves :
             LET a == out.log[i]
                 b == out.log[j]
             IN  (/\ a.ok /\ b.ok
                  /\ a.folder = b.folder
                  /\ basename(a.src) = basename(b.src)
                  /\ a.before.files[a.src] # b.before.files[b.src])
                    => \E p, q \in DOMAIN fs.files :
                          /\ p # q
                          /\ fs.files[p] = a.before.files[a.src]
                          /\ fs.files[q] = b.before.files[b.src]

\* a.t moved into a folder that holds a.t and a_1.t lands as a_2.t, and one
\* call moved two files named a.t into the same folder
C1_Witness ==
    /\ pc \in Returned
    /\ call.op = "organize_files"
    /\ \E i \in FileMoves :
          /\ out.log[i].ok
          /\ basename(out.log[i].src) = <<"a", ".", "t">>
          /\ basename(out.log[i].dest) = <<"a", "_", "2", ".", "t">>
          /\ dirname(out.log[i].src) # out.log[i].folder
    /\ \E i, j \in FileMoves :
          /\ i # j
          /\ out.log[i].ok /\ out.log[j].ok
          /\ out.log[i].folder = out.log[j].folder
          /\ basename(out.log[i].src) = basename(out.log[j].src)
          /\ out.log[i].src # out.log[j].src

\* C2: leave in place. For a group whose label is the effective root no
\* folder is created, and a file whose parent directory already is its
\* destination folder is at the same path, under the same name, after the call.
C2_LeaveInPlace ==
    (pc \in Returned /\ call.op = "organize_files") =>
        \A i \in 1..Len(out.log) :
           LET e == out.log[i]
           IN  /\ (e.op = "makedirs" /\ is_dir(e.before, e.dest)) => e.after = e.before
               /\ (e.op = "move_file" /\ is_file(e.before, e.src) /\ dirname(e.src) = e.folder)
                     => /\ is_file(e.after, e.src)
                        /\ e.after.files[e.src] = e.before.files[e.src]

\* the ordinal of log entry e's duplicate, counted on while Dupe<n>_<name> is taken
DupeName(e, n) ==
    join(e.folder, <<"D", "u", "p", "e">> \o str(n) \o <<"_">> \o basename(e.src))

\* C8: the naming of move_duplicates. The i-th duplicate lands in the
\* Duplicates folder as Dupe<i>_<name>, or, when that is taken, under the
\* first free name got by counting the ordinal up; nothing is overwritten.
C8_DuplicateNaming ==
    (pc \in Returned /\ call.op = "move_duplicates") =>
        \A i \in FileMoves :
           LET e == out.log[i]
               K == Cardinality((DOMAIN e.before.files) \cup e.before.dirs) + 1
           IN  /\ ~exists(e.before, e.dest)
               /\ \E n \in e.index..(e.index + K) :
                     /\ e.dest = DupeName(e, n)
                     /\ \A m \in e.index..(n - 1) : exists(e.before, DupeName(e, m))

\* the Duplicates folder of the scanned root
DupFolder == <<"/", "r", "/", "D", "u", "p", "l", "i", "c", "a", "t", "e", "s">>
\* the file that was at path p when the call started is now in the Duplicates folder
Relocated(p) ==
    \E q \in DOMAIN fs.files :
       /\ fs.files[q] = pre.files[p]
       /\ dirname(q) = DupFolder
       /\ q # p
\* the file that was at path p when the call started is still there
Stays(p) == is_file(fs, p) /\ fs.files[p] = pre.files[p]
ContentAt(p) == data[pre.files[p]]

\* C9: the selection of move_duplicates. Without check_contents every entry
\* of the duplicate list is relocated into the Duplicates folder. With it a
\* candidate is relocated if and only if it is non-empty and another
\* candidate of the list has the same digest; the others stay where they are.
C9_DuplicateSelection ==
    (pc \in Returned /\ call.op = "move_duplicates") =>
        LET D == Range(call.duplicates)
        IN  /\ ~out.raised
            /\ ~call.check_contents => \A p \in D : Relocated(p)
            /\ call.check_contents =>
                 \A p \in D :
                    /\ Relocated(p) <=>
                         /\ ContentAt(p) # <<>>
                         /\ \E q \in D \ {p} : md5(ContentAt(q)) = md5(ContentAt(p))
                    /\ ~Relocated(p) => Stays(p)
            /\ \A p \in (DOMAIN pre.files) \ D : Stays(p)

\* with check_contents: two candidates with one digest, both relocated
C9_Witness ==
    /\ pc \in Returned
    /\ call.op = "move_duplicates"
    /\ call.check_contents
    /\ Len(call.duplicates) = 2
    /\ ContentAt(call.duplicates[1]) = ContentAt(call.duplicates[2])
    /\ Relocated(call.duplicates[1])
    /\ Relocated(call.duplicates[2])

\* the paths of the plan the last organize_files call was given
PlanPaths == UNION {Range(call.suggestions[g].val) : g \in 1..Len(call.suggestions)}
\* a file move of the last call failed
SomeMoveFailed == \E i \in FileMoves : ~out.log[i].ok

\* C10: failure isolation. When a file move of organize_files fails, the call
\* does not raise, every other file of the plan is still moved, and the
\* moves made before the failure stand.
C10_FailureIsolation ==
    (pc \in Returned /\ call.op = "organize_files" /\ SomeMoveFailed) =>
        /\ ~out.raised
        /\ \A p \in PlanPaths :
             \E i \in FileMoves : out.log[i].src = p
        /\ \A i \in FileMoves :
             LET e == out.log[i]
             IN  is_file(pre, e.src) =>
                    /\ e.ok
                    /\ is_file(fs, e.dest)
                    /\ fs.files[e.dest] = pre.files[e.src]
                    /\ dirname(e.dest) = e.folder

\* the first move of a plan of two groups failed and a later file of the same
\* group and the file of the next group were moved
C10_Witness ==
    /\ pc \in Returned
    /\ call.op = "organize_files"
    /\ Len(call.suggestions) = 2
    /\ \E i, j, k \in FileMoves :
          /\ i < j /\ j < k
          /\ ~out.log[i].ok
          /\ out.log[j].ok /\ out.log[j].folder = out.log[i].folder
          /\ out.log[k].ok /\ out.log[k].folder # out.log[i].folder

\* the root of the organize_files call
RootPath == IF call.base_path # NoPath THEN call.base_path
            ELSE rsplit1(call.suggestions[1].val[1], "/")
\* the calls of the log with operation op
LogOf(op) == {i \in 1..Len(out.log) : out.log[i].op = op}
\* the file system when the move pass ended and the reconciliation began
AfterMoves(op) == IF LogOf(op) = {} THEN fs ELSE out.log[MinOf(LogOf(op))].before
\* directory d of file system f holds no file at any depth
Hollow(f, d) == \A p \in DOMAIN f.files : ~within(p, d)
\* the directories of f below the root
Below(f) == {d \in f.dirs : within(d, RootPath) /\ d # RootPath}
\* organize_files ran with the flags <<recursive, cleanup, delete_empty>> and returned
Reconciled(mode) ==
    /\ pc \in Returned
    /\ call.op = "organize_files"
    /\ <<call.recursive, call.cleanup, call.delete_empty>> = mode
    /\ ~out.raised

\* C11: empty-folder deletion. After organize_files with recursive, cleanup and
\* delete_empty set, every directory below the root that held no entry after
\* the move pass, or only directories that themselves went away, is gone; each
\* directory deleted held no entry when it was examined; every directory with
\* a file somewhere below it, and every file, is still there.
C11_DeleteEmpty ==
    Reconciled(<<TRUE, TRUE, TRUE>>) =>
        LET mid == AfterMoves("delete_folder")
        IN  /\ \A d \in Below(mid) : Hollow(mid, d) => d \notin fs.dirs
            /\ \A d \in Below(mid) : ~Hollow(mid, d) => d \in fs.dirs
            /\ \A i \in LogOf("delete_folder") :
                  /\ out.log[i].ok
                  /\ listdir(out.log[i].before, out.log[i].src) = {}
            /\ fs.files = mid.files
            /\ RootPath \in fs.dirs

\* a directory whose only entry after the move pass was an empty directory has
\* been deleted after its child, next to a directory that kept its file
C11_Witness ==
    /\ Reconciled(<<TRUE, TRUE, TRUE>>)
    /\ LET mid == AfterMoves("delete_folder")
       IN  /\ \E d, c \in Below(mid) :
                /\ listdir(mid, d) = {c}
                /\ listdir(mid, c) = {}
                /\ d \notin fs.dirs
                /\ c \notin fs.dirs
           /\ \E d \in Below(mid) : ~Hollow(mid, d) /\ d \in fs.dirs

\* the Empty Folders directory of the call
EmptyFolders == join(RootPath, EMPTY_FOLDERS_FOLDER)

\* C12: empty-folder relocation. After organize_files with recursive and
\* cleanup set and delete_empty unset, every directory below the root, other
\* than the root and Empty Folders, that was found empty has been moved to
\* become a subdirectory of <root>/Empty Folders of its own, and no directory
\* has been deleted, also when two empty directories share a name.
C12_RelocateEmpty ==
    Reconciled(<<TRUE, TRUE, FALSE>>) =>
        LET mid == AfterMoves("move_folder")
        IN  /\ \A i \in LogOf("move_folder") :
                 LET e == out.log[i]
                 IN  /\ e.ok
                     /\ e.dest \in listdir(e.after, EmptyFolders)
                     /\ e.src # e.dest =>
                           /\ e.src \notin e.after.dirs
                           /\ e.dest \notin e.before.dirs
            /\ Cardinality(fs.dirs) = Cardinality(mid.dirs)
            /\ fs.files = mid.files

\* two empty directories named x have been found in different places
C12_SameNameCase ==
    /\ Reconciled(<<TRUE, TRUE, FALSE>>)
    /\ \E i, j \in LogOf("move_folder") :
          /\ i < j
          /\ out.log[i].src # out.log[j].src
          /\ basename(out.log[i].src) = basename(out.log[j].src)
          /\ dirname(out.log[i].src) # EmptyFolders
          /\ dirname(out.log[j].src) # EmptyFolders

\* the regular files a scan of Root can read: those of Visited outside the
\* directories the process may not read
Readable == {p \in Visited : \A d \in scan.denied : ~within(p, d)}

\* C13: scanner fail-soft. When a subdirectory cannot be read during
\* get_file_info, the scan does not raise and every readable file of the tree
\* is returned in files or duplicates.
C13_ScanFailSoft ==
    (pc \in {"scanned", "failed"} /\ scan.denied # {}) =>
        /\ ~scan.raised
        /\ Readable \subseteq (Range(PathsOf(scan.files)) \cup Range(scan.duplicates))

\* C14: empty input creates nothing. move_duplicates called with an empty
\* duplicate list, and organize_files called with an empty suggestion mapping,
\* each return, having created no directory and moved no file.
C14_EmptyInputNoop ==
    pc \in Returned =>
        /\ (call.op = "move_duplicates" /\ call.duplicates = <<>>) =>
              /\ ~out.raised
              /\ fs = pre
        /\ (call.op = "organize_files" /\ call.suggestions = <<>>) =>
              /\ ~out.raised
              /\ fs.dirs \subseteq pre.dirs
              /\ fs.files = pre.files

\* organize_files with an empty mapping and no base_path did not return
C14_NoBasePathCase ==
    /\ pc \in Returned
    /\ call.op = "organize_files"
    /\ call.suggestions = <<>>
    /\ call.base_path = NoPath
    /\ out.raised

\* organize_files with an empty mapping created a directory
C14_CleanupCase ==
    /\ pc \in Returned
    /\ call.op = "organize_files"
    /\ call.suggestions = <<>>
    /\ ~(fs.dirs \subseteq pre.dirs)

\* C15: move_files_into_one_folder returns an empty mapping for an empty file
\* list, and for N > 0 files exactly one group, under the consolidation label,
\* holding the N input paths in input order and nothing else.
C15_OneFolder ==
    (pc = "suggested" /\ plan.strategy = "one_folder") =>
        LET S == plan.suggestions
            N == Len(scan.files)
        IN  /\ N = 0 => S = <<>>
            /\ N > 0 =>
                  /\ Len(S) = 1
                  /\ S[1].key = <<"O", "n", "e", " ", "F", "o", "l", "d", "e", "r">>
                  /\ Len(S[1].val) = N
                  /\ \A i \in 1..N : S[1].val[i] = scan.files[i].path

\* the descriptors of a scan that met several files have been put in one group
C15_Witness ==
    /\ pc = "suggested"
    /\ plan.strategy = "one_folder"
    /\ Len(scan.files) >= 2
    /\ Len(plan.suggestions) = 1
    /\ Len(plan.suggestions[1].val) = Len(scan.files)

\* the number of hash_file calls a sort_by_similarity call made on path p
HashCalls(p) == Cardinality({i \in 1..Len(plan.hashed) : plan.hashed[i] = p})

\* C16: content-digest caching. In one sort_by_similarity call with
\* check_contents set, hash_file is invoked at most once per file path,
\* whether the file is a seed or a comparison target.
C16_DigestCaching ==
    (pc = "suggested" /\ plan.strategy = "similarity" /\ plan.check_contents) =>
        \A i \in 1..Len(scan.files) : HashCalls(scan.files[i].path) <= 1

\* C17: extension derivation. The extension of every descriptor is the
\* lowercased part of the file name from its last "." on, dot included, and the
\* no-extension sentinel when the name has no "." or nothing follows its last
\* ".".
C17_ExtensionDerivation ==
    pc = "scanned" =>
        \A i \in 1..Len(scan.files) :
            LET name == scan.files[i].name
                dot == LastIndexOf(name, ".")
            IN  scan.files[i].ext =
                   IF dot = 0 \/ dot = Len(name) THEN NO_EXTENSION
                   ELSE lower(SubSeq(name, dot, Len(name)))

=============================================================================
